---- MODULE Spec2Model ----
(***************************************************************************)
(* The WeChat notifier of notification-manager                             *)
(* (pkg/notify/notifier/wechat/wechat.go): NewWechatNotifier merges the    *)
(* receivers into notifier instances, Notify batches each instance's       *)
(* destinations, registers one task per (batch, message) on an async group *)
(* and every task sends with at most one retry on token expiry.            *)
(*                                                                         *)
(* A Go string is a sequence of one-character strings, so that Split,      *)
(* TrimPrefix and the "%s|" formatting of batch are computed, not assumed. *)
(***************************************************************************)
EXTENDS Integers, Sequences, FiniteSets, TLC

VARIABLES
  receivers,   \* NewWechatNotifier's argument, as far as its loop has ranged
  ri,          \* number of receivers the constructor's loop has handled
  messageMaxSize, \* n.messageMaxSize
  calls,       \* Notify calls that have reached group.Wait
  wechat,      \* n.wechat: Md5key -> merged *config.Wechat
  pc,          \* position of the constructing / notifying goroutine
  data,        \* Notify's argument: the number of messages it renders to
  splitMax,    \* the size bound Notify has passed to n.template.Split
  ctxDone,     \* the ctx given to Notify is cancelled
  ctxAtCall,   \* the ctx was already cancelled when Notify was called
  splitErr,    \* n.template.Split returned an error
  messages,    \* the messages n.template.Split returned
  todo,        \* keys of n.wechat the range loop has not visited yet
  cur,         \* key of the instance the range loop is at (NoConfig outside)
  us, ps, ts,  \* the three cursors of the batching loop
  nw,          \* per instance visited, the clone nw the loop narrows and
               \* the instance's tasks hold a pointer to
  batches,     \* per instance, the batches the loop produced, in order
  tasks,       \* the functions added to the async group, in order of Add
  errs,        \* the errors group.Wait has collected / Notify returns
  cache,       \* AccessTokenService: credential key -> token (0: no entry)
  fetching,    \* credential keys with a token fetch in flight
  pendingInv,  \* started "go n.invalidToken" goroutines that have not run
  nfetch       \* tokens the channel has issued so far

newVars == <<receivers, ri, messageMaxSize, calls>>
callVars == <<data, splitMax, ctxDone, ctxAtCall, splitErr, messages, todo,
              cur, us, ps, ts, nw, batches, tasks, errs>>
atsVars == <<cache, fetching, pendingInv, nfetch>>
vars == <<receivers, ri, messageMaxSize, calls, wechat, pc, data, splitMax,
          ctxDone, ctxAtCall, splitErr, messages, todo, cur, us, ps, ts, nw,
          batches, tasks, errs, cache, fetching, pendingInv, nfetch>>

----------------------------------------------------------------------------
(* Bounds of the model *)

\* receivers handed to NewWechatNotifier
MaxReceivers == 3
\* destinations of one kind in one receiver
MaxDest == 2
\* destinations of one kind in the instance whose batching is examined
MaxLen == 4
\* messages n.template.Split returns
MaxMsgs == 2
\* Notify calls, one after the other, whose batching is examined
MaxCalls == 2
\* the batch sizes of lines 22-24 (1000, 100 and 100), scaled down to the
\* lengths of the lists above
ToUserBatchSize == 2
ToPartyBatchSize == 1
ToTagBatchSize == 1

----------------------------------------------------------------------------
(* Program constants *)

AccessTokenInvalid == 42001
MessageMaxSize == 2048
DefaultApiURL == "https://qyapi.weixin.qq.com/cgi-bin/"

Sep == "|"

----------------------------------------------------------------------------
(* Strings *)

\* destination names, all different
Alphabet == <<"a", "b", "c", "d", "e", "f", "g", "h",
              "i", "j", "k", "l", "m", "n", "o", "p">>

\* the names number from+1 .. from+n
Names(from, n) == [i \in 1..n |-> <<Alphabet[from + i]>>]

RECURSIVE Concat(_)
Concat(ss) == IF ss = <<>> THEN <<>> ELSE Head(ss) \o Concat(Tail(ss))

\* strings.Join(list, "|")
RECURSIVE Join(_)
Join(list) ==
  IF list = <<>> THEN <<>>
  ELSE IF Len(list) = 1 THEN list[1]
  ELSE list[1] \o <<Sep>> \o Join(Tail(list))

\* strings.Split(s, "|"): a string without separator is one piece, the empty
\* string included
RECURSIVE Split(_)
Split(s) ==
  IF \A i \in 1..Len(s) : s[i] # Sep THEN <<s>>
  ELSE LET i == CHOOSE i \in 1..Len(s) :
                  s[i] = Sep /\ \A j \in 1..(i - 1) : s[j] # Sep
       IN <<SubSeq(s, 1, i - 1)>> \o Split(SubSeq(s, i + 1, Len(s)))

\* strings.TrimPrefix(s, "|")
TrimPrefix(s) == IF Len(s) > 0 /\ s[1] = Sep THEN Tail(s) ELSE s

\* the destinations a "|"-separated field names: none for the empty string
DestList(s) == IF s = <<>> THEN <<>> ELSE Split(s)

----------------------------------------------------------------------------
(* NewWechatNotifier *)

\* transport identities: CorpID and AgentID of a WechatConfig
Idents == {1, 2}

\* a nil *WechatConfig
NoConfig == [present |-> FALSE, id |-> 0, APIURL |-> "", secret |-> FALSE]

\* a nil *config.Wechat
NoWechat ==
  [WechatConfig |-> NoConfig, ToUser |-> <<>>, ToParty |-> <<>>, ToTag |-> <<>>]

\* the WechatConfig values of the receivers: no config, or an identity with
\* an API URL left empty or set and with an APISecret (a reference to the
\* credential) set or left nil
Configs ==
  {NoConfig,
   [present |-> TRUE, id |-> 1, APIURL |-> "", secret |-> TRUE],
   [present |-> TRUE, id |-> 1, APIURL |-> DefaultApiURL, secret |-> TRUE],
   [present |-> TRUE, id |-> 2, APIURL |-> DefaultApiURL, secret |-> TRUE],
   [present |-> TRUE, id |-> 2, APIURL |-> DefaultApiURL, secret |-> FALSE]}

\* the shapes of a receiver's destination fields (the lengths of ToUser,
\* ToParty and ToTag): no kind, one kind or every kind lists MaxDest
\* destinations
Shapes ==
  {<<0, 0, 0>>, <<MaxDest, 0, 0>>, <<0, MaxDest, 0>>, <<0, 0, MaxDest>>,
   <<MaxDest, MaxDest, MaxDest>>}

\* the i-th receiver of the argument: a *config.Wechat or another channel's
ReceiverChoices(i) ==
  {[kind |-> "other", WechatConfig |-> NoConfig,
    ToUser |-> <<>>, ToParty |-> <<>>, ToTag |-> <<>>]} \cup
  {[kind |-> "wechat", WechatConfig |-> c,
    ToUser |-> Join(Names((i - 1) * MaxDest, sh[1])),
    ToParty |-> Join(Names((i - 1) * MaxDest, sh[2])),
    ToTag |-> Join(Names((i - 1) * MaxDest, sh[3]))] :
      c \in Configs, sh \in Shapes}

\* line 122: an empty APIURL is set to the default before the clone is taken
WithDefaultURL(c) ==
  IF c.APIURL = "" THEN [c EXCEPT !.APIURL = DefaultApiURL] ELSE c

\* config.Wechat.Clone: the config without its destinations
Clone(r) ==
  [WechatConfig |-> r.WechatConfig, ToUser |-> <<>>, ToParty |-> <<>>, ToTag |-> <<>>]

\* notifier.Md5key: a hash of the clone, one value per content
Md5key(c) == c.WechatConfig

\* a mutant of AppendDest: the leading separator is kept
AppendDestNoTrim(field, add) ==
  IF Len(add) > 0 THEN field \o <<Sep>> \o add ELSE field

\* lines 138-141 (and 143-146, 148-151): append a receiver's field to the
\* instance's
AppendDest(field, add) ==
  TrimPrefix(IF Len(add) > 0 THEN field \o <<Sep>> \o add ELSE field)

\* lines 112-120: the receivers the loop skips
Skipped(r) == r.kind # "wechat" \/ ~r.WechatConfig.present

\* lines 122-153: the map after one receiver is merged
Merge(m, r) ==
  LET rr == [r EXCEPT !.WechatConfig = WithDefaultURL(r.WechatConfig)]
      c == Clone(rr)
      key == Md5key(c)
      w == IF key \in DOMAIN m THEN m[key] ELSE c
      w2 == [w EXCEPT !.ToUser = AppendDest(w.ToUser, rr.ToUser),
                      !.ToTag = AppendDest(w.ToTag, rr.ToTag),
                      !.ToParty = AppendDest(w.ToParty, rr.ToParty)]
  IN [k \in DOMAIN m \cup {key} |-> IF k = key THEN w2 ELSE m[k]]

\* the empty map (make(map[string]*config.Wechat))
EmptyMap == [k \in {} |-> NoWechat]

\* the values of opts.Wechat.MessageMaxSize: not set, or set to a size
OptSizes == {0, MessageMaxSize \div 2}

\* lines 85, 101-103: n.messageMaxSize is the default unless the option is
\* positive
MaxSizeOf(o) == IF o > 0 THEN o ELSE MessageMaxSize

\* the variables of a Notify call and of the token service before any call
CallIdle ==
  /\ ctxDone = FALSE
  /\ ctxAtCall = FALSE
  /\ splitMax = 0
  /\ splitErr = FALSE
  /\ messages = <<>>
  /\ todo = {}
  /\ cur = NoConfig
  /\ us = 0 /\ ps = 0 /\ ts = 0
  /\ nw = EmptyMap
  /\ batches = EmptyMap
  /\ tasks = <<>>
  /\ errs = <<>>

AtsIdle ==
  /\ cache = [k \in Idents |-> 0]
  /\ fetching = {}
  /\ pendingInv = [k \in Idents |-> 0]
  /\ nfetch = 0

\* lines 64-108: NewWechatNotifier is called without a size option (the
\* option is a choice of InitBatch); its loop has not started
InitNew ==
  /\ receivers = <<>>
  /\ ri = 0
  /\ messageMaxSize = MaxSizeOf(0)
  /\ calls = 0
  /\ wechat = EmptyMap
  /\ pc = "new"
  /\ data = 0
  /\ CallIdle
  /\ AtsIdle

\* lines 110-120: a receiver of another channel, or without config, is ignored
NewSkip ==
  /\ pc = "new"
  /\ ri < MaxReceivers
  /\ \E r \in ReceiverChoices(ri + 1) :
       /\ Skipped(r)
       /\ receivers' = Append(receivers, r)
  /\ ri' = ri + 1
  /\ UNCHANGED <<messageMaxSize, calls, wechat, pc>>
  /\ UNCHANGED callVars
  /\ UNCHANGED atsVars

\* lines 110-154: a receiver is merged into the instance of its key
NewMerge ==
  /\ pc = "new"
  /\ ri < MaxReceivers
  /\ \E r \in ReceiverChoices(ri + 1) :
       /\ ~Skipped(r)
       /\ receivers' = Append(receivers, r)
       /\ wechat' = Merge(wechat, r)
  /\ ri' = ri + 1
  /\ UNCHANGED <<messageMaxSize, calls, pc>>
  /\ UNCHANGED callVars
  /\ UNCHANGED atsVars

\* line 156: the range is over, return n
NewReturn ==
  /\ pc = "new"
  /\ pc' = "ready"
  /\ UNCHANGED <<receivers, ri, messageMaxSize, calls, wechat>>
  /\ UNCHANGED callVars
  /\ UNCHANGED atsVars

NextNew == NewSkip \/ NewMerge \/ NewReturn

SpecNew == InitNew /\ [][NextNew]_vars

----------------------------------------------------------------------------
(* C7 *)

\* the receivers, in order, that the constructor merges under key k
RECURSIVE MergedUnder(_, _)
MergedUnder(rs, k) ==
  IF rs = <<>> THEN <<>>
  ELSE LET r == Head(rs)
       IN IF ~Skipped(r) /\ Md5key(Clone([r EXCEPT !.WechatConfig =
                                           WithDefaultURL(r.WechatConfig)])) = k
          THEN <<r>> \o MergedUnder(Tail(rs), k)
          ELSE MergedUnder(Tail(rs), k)

AllKeys ==
  [present : {TRUE}, id : Idents, APIURL : {DefaultApiURL}, secret : BOOLEAN]

\* C7: once NewWechatNotifier has returned, there is exactly one instance per
\* transport identity among the accepted receivers, and each of its ToUser,
\* ToParty and ToTag fields lists the destinations of the receivers of that
\* identity, concatenated in receiver order, without a leading separator.
C7_MergeIsConcatenation ==
  pc = "ready" =>
    /\ DOMAIN wechat = {k \in AllKeys : MergedUnder(receivers, k) # <<>>}
    /\ \A k \in DOMAIN wechat :
         LET rs == MergedUnder(receivers, k)
         IN /\ DestList(wechat[k].ToUser) =
                 Concat([i \in 1..Len(rs) |-> DestList(rs[i].ToUser)])
            /\ DestList(wechat[k].ToParty) =
                 Concat([i \in 1..Len(rs) |-> DestList(rs[i].ToParty)])
            /\ DestList(wechat[k].ToTag) =
                 Concat([i \in 1..Len(rs) |-> DestList(rs[i].ToTag)])
            /\ wechat[k].WechatConfig = k

\* two receivers of one identity, both with users, were merged, next to an
\* instance of another identity
C7_Witness ==
  /\ pc = "ready"
  /\ Cardinality(DOMAIN wechat) = 2
  /\ \E k \in DOMAIN wechat :
       /\ Len(MergedUnder(receivers, k)) = 2
       /\ \A i \in 1..2 : MergedUnder(receivers, k)[i].ToUser # <<>>
       /\ Len(DestList(wechat[k].ToUser)) = 2 * MaxDest

----------------------------------------------------------------------------
(* C12 *)

\* the receiver carries what the transport needs: a channel config with its
\* credential reference
Complete(r) ==
  r.kind = "wechat" /\ r.WechatConfig.present /\ r.WechatConfig.secret

\* C12: once NewWechatNotifier has returned, the instances are those of the
\* receivers that carry a channel config with a credential reference: a
\* receiver without one has no instance, and every other receiver has one.
C12_IncompleteReceiverDropped ==
  pc = "ready" =>
    DOMAIN wechat =
      {Md5key(Clone([receivers[i] EXCEPT !.WechatConfig =
                       WithDefaultURL(receivers[i].WechatConfig)])) :
         i \in {j \in DOMAIN receivers : Complete(receivers[j])}}

----------------------------------------------------------------------------
(* Notify: the calling goroutine *)

\* NewWechatNotifier as a whole: the map after the receivers rs
RECURSIVE Built(_, _)
Built(m, rs) ==
  IF rs = <<>> THEN m
  ELSE Built(IF Skipped(Head(rs)) THEN m ELSE Merge(m, Head(rs)), Tail(rs))

\* a receiver of identity id with lu users, lp parties and lt tags
Receiver(id, lu, lp, lt) ==
  [kind |-> "wechat",
   WechatConfig |-> [present |-> TRUE, id |-> id, APIURL |-> DefaultApiURL,
                    secret |-> TRUE],
   ToUser |-> Join(Names(0, lu)),
   ToParty |-> Join(Names(0, lp)),
   ToTag |-> Join(Names(0, lt))]

\* the destinations of a request, before send has built it
NoBatch == [ToUser |-> <<>>, ToParty |-> <<>>, ToTag |-> <<>>]

\* a mutant of batch: the slice ends one element early
batchShort(src, index, size) ==
  IF index > Len(src) THEN [to |-> <<>>, index |-> index]
  ELSE LET sub == IF index + size > Len(src)
                  THEN SubSeq(src, index + 1, Len(src) - 1)
                  ELSE SubSeq(src, index + 1, index + size)
       IN [to |-> Concat([i \in 1..Len(sub) |-> sub[i] \o <<Sep>>]),
           index |-> index + size]

\* lines 338-358: batch(src, &index, size), the string returned and the
\* index left (Go slices count from 0)
batch(src, index, size) ==
  IF index > Len(src) THEN [to |-> <<>>, index |-> index]
  ELSE LET sub == IF index + size > Len(src)
                  THEN SubSeq(src, index + 1, Len(src))
                  ELSE SubSeq(src, index + 1, index + size)
       IN [to |-> Concat([i \in 1..Len(sub) |-> sub[i] \o <<Sep>>]),
           index |-> index + size]

\* lines 260-262
toUser == Split(wechat[cur].ToUser)
toParty == Split(wechat[cur].ToParty)
toTag == Split(wechat[cur].ToTag)

\* a mutant of LoopOver: the loop ends when one of the lists is exhausted
LoopOverAny == us >= Len(toUser) \/ ps >= Len(toParty) \/ ts >= Len(toTag)

\* line 266
LoopOver == us >= Len(toUser) /\ ps >= Len(toParty) /\ ts >= Len(toTag)

\* lines 276-278: the function added to the group for message m in
\* iteration iter of instance k; it holds nw, not the batch
NewTask(k, iter, m) ==
  [key |-> k, iter |-> iter, m |-> m, pc |-> "created", to |-> NoBatch,
   attempt |-> 0, tok |-> 0, err |-> "nil", outs |-> <<>>, toks |-> <<>>]

\* n.template.Split: the messages the data renders to
SplitMessages(d) == [i \in 1..d |-> i]

\* lines 159, 250-256: Notify is called, Split succeeds, the group is made
NotifyCall ==
  /\ pc = "ready"
  /\ \E c \in BOOLEAN : ctxDone' = c /\ ctxAtCall' = c
  /\ splitMax' = MessageMaxSize
  /\ messages' = SplitMessages(data)
  /\ todo' = DOMAIN wechat
  /\ pc' = "range"
  /\ UNCHANGED <<receivers, ri, messageMaxSize, calls, wechat, data, splitErr,
                 cur, us, ps, ts, nw, batches,
                 tasks, errs>>
  /\ UNCHANGED atsVars

\* lines 159, 250-254: Notify is called, Split fails, Notify returns nil
NotifySplitError ==
  /\ pc = "ready"
  /\ \E c \in BOOLEAN : ctxDone' = c /\ ctxAtCall' = c
  /\ splitMax' = MessageMaxSize
  /\ splitErr' = TRUE
  /\ errs' = <<>>
  /\ pc' = "done"
  /\ UNCHANGED <<receivers, ri, messageMaxSize, calls, wechat, data, messages,
                 todo, cur, us, ps, ts, nw,
                 batches, tasks>>
  /\ UNCHANGED atsVars

\* lines 257-264: the range reaches an instance (in any order), splits its
\* fields and clones it
RangeNext ==
  /\ pc = "range"
  /\ \E k \in todo :
       /\ cur' = k
       /\ todo' = todo \ {k}
       /\ nw' = [x \in DOMAIN nw \cup {k} |->
                  IF x = k THEN Clone(wechat[k]) ELSE nw[x]]
       /\ batches' = [x \in DOMAIN batches \cup {k} |->
                       IF x = k THEN <<>> ELSE batches[x]]
  /\ us' = 0 /\ ps' = 0 /\ ts' = 0
  /\ pc' = "batch"
  /\ UNCHANGED <<receivers, ri, messageMaxSize, calls, wechat, data, splitMax,
                 ctxDone, ctxAtCall, splitErr, messages,
                 tasks, errs>>
  /\ UNCHANGED atsVars

\* a mutant of LoopIter: the instance itself is narrowed, not its clone
LoopIterInPlace ==
  /\ pc = "batch"
  /\ ~LoopOver
  /\ LET bu == batch(toUser, us, ToUserBatchSize)
         bp == batch(toParty, ps, ToPartyBatchSize)
         bt == batch(toTag, ts, ToTagBatchSize)
         b == [ToUser |-> bu.to, ToParty |-> bp.to, ToTag |-> bt.to]
         iter == Len(batches[cur]) + 1
     IN /\ us' = bu.index /\ ps' = bp.index /\ ts' = bt.index
        /\ wechat' = [wechat EXCEPT ![cur].ToUser = bu.to, ![cur].ToParty = bp.to,
                                    ![cur].ToTag = bt.to]
        /\ batches' = [batches EXCEPT ![cur] = Append(@, b)]
        /\ tasks' = tasks \o [i \in 1..Len(messages) |->
                                 NewTask(cur, iter, messages[i])]
  /\ UNCHANGED <<receivers, ri, messageMaxSize, calls, data, splitMax, pc,
                 ctxDone, ctxAtCall, splitErr, messages, todo, cur, nw, errs>>
  /\ UNCHANGED atsVars

\* lines 265-280: one iteration of the batching loop: nw is narrowed to the
\* next batches and one task per message is added to the group
LoopIter ==
  /\ pc = "batch"
  /\ ~LoopOver
  /\ LET bu == batch(toUser, us, ToUserBatchSize)
         bp == batch(toParty, ps, ToPartyBatchSize)
         bt == batch(toTag, ts, ToTagBatchSize)
         b == [ToUser |-> bu.to, ToParty |-> bp.to, ToTag |-> bt.to]
         iter == Len(batches[cur]) + 1
     IN /\ us' = bu.index /\ ps' = bp.index /\ ts' = bt.index
        /\ nw' = [nw EXCEPT ![cur].ToUser = bu.to, ![cur].ToParty = bp.to,
                            ![cur].ToTag = bt.to]
        /\ batches' = [batches EXCEPT ![cur] = Append(@, b)]
        /\ tasks' = tasks \o [i \in 1..Len(messages) |->
                                 NewTask(cur, iter, messages[i])]
  /\ UNCHANGED <<receivers, ri, messageMaxSize, calls, wechat, data, splitMax,
                 pc, ctxDone, ctxAtCall, splitErr,
                 messages, todo, cur, errs>>
  /\ UNCHANGED atsVars

\* lines 266-268: every cursor is past its list, break
LoopBreak ==
  /\ pc = "batch"
  /\ LoopOver
  /\ pc' = "range"
  /\ cur' = NoConfig
  /\ UNCHANGED <<receivers, ri, messageMaxSize, calls, wechat, data, splitMax,
                 ctxDone, ctxAtCall, splitErr, messages,
                 todo, us, ps, ts, nw, batches, tasks, errs>>
  /\ UNCHANGED atsVars

\* lines 257, 283: the range is over, Notify calls group.Wait
RangeEnd ==
  /\ pc = "range"
  /\ todo = {}
  /\ pc' = "wait"
  /\ calls' = calls + 1
  /\ UNCHANGED <<receivers, ri, messageMaxSize, wechat>>
  /\ UNCHANGED callVars
  /\ UNCHANGED atsVars

\* line 283: every task has reported, Wait and Notify return the errors
WaitReturn ==
  /\ pc = "wait"
  /\ \A i \in 1..Len(tasks) : tasks[i].pc = "done"
  /\ pc' = "done"
  /\ UNCHANGED <<receivers, ri, messageMaxSize, calls, wechat>>
  /\ UNCHANGED callVars
  /\ UNCHANGED atsVars

\* line 159: Notify has returned and is called again, with other data
NotifyAgain ==
  /\ pc = "done"
  /\ calls < MaxCalls
  /\ pc' = "ready"
  /\ data' \in 0..MaxMsgs
  /\ splitMax' = 0
  /\ ctxDone' = FALSE /\ ctxAtCall' = FALSE /\ splitErr' = FALSE
  /\ messages' = <<>> /\ todo' = {} /\ cur' = NoConfig
  /\ us' = 0 /\ ps' = 0 /\ ts' = 0
  /\ nw' = EmptyMap /\ batches' = EmptyMap /\ tasks' = <<>> /\ errs' = <<>>
  /\ UNCHANGED <<receivers, ri, messageMaxSize, calls, wechat>>
  /\ UNCHANGED atsVars

\* the notifier NewWechatNotifier returns for one receiver with lists of
\* every length up to MaxLen, called with or without a size option
InitBatch ==
  /\ \E lu \in 0..MaxLen, lp \in 0..MaxLen, lt \in 0..MaxLen :
       receivers = <<Receiver(1, lu, lp, lt)>>
  /\ ri = Len(receivers)
  /\ messageMaxSize \in {MaxSizeOf(o) : o \in OptSizes}
  /\ calls = 0
  /\ wechat = Built(EmptyMap, receivers)
  /\ pc = "ready"
  /\ data \in 0..MaxMsgs
  /\ CallIdle
  /\ AtsIdle

NextBatch ==
  \/ NotifyCall
  \/ NotifySplitError
  \/ RangeNext
  \/ LoopIter
  \/ LoopBreak
  \/ RangeEnd
  \/ WaitReturn
  \/ NotifyAgain

\* the calling goroutine alone, in one call after the other: the tasks do
\* not run, so that a call returns when it added none
SpecBatch == InitBatch /\ [][NextBatch]_vars

----------------------------------------------------------------------------
(* Notify: the tasks of the group, send and sendMessage *)

\* lines 330, 334: the key of the token, CorpID + " | " + AgentID
CredKey(k) == k.id

\* the text of weResp.Error in a token-expiry response
WeRespError == "expired"

\* the codes of a decoded response: success, token expiry, another error
Codes == {0, AccessTokenInvalid, AccessTokenInvalid + 1}

\* lines 214-224: what DoHttpRequest and the decoding of its body yield: an
\* error (of the cancelled context; of the transport or the decoding) or a
\* response code
HttpOutcomes(cancelled) ==
  IF cancelled THEN {[err |-> "cancelled", code |-> 0]}
  ELSE {[err |-> "transport", code |-> 0]} \cup
       {[err |-> "nil", code |-> c] : c \in Codes}

\* lines 214-239: what sendMessage returns for the outcome of its request
SendResult(resp) ==
  IF resp.err # "nil" THEN [retry |-> FALSE, err |-> resp.err]
  ELSE IF resp.code = 0 THEN [retry |-> FALSE, err |-> "nil"]
  ELSE IF resp.code = AccessTokenInvalid THEN [retry |-> TRUE, err |-> WeRespError]
  ELSE [retry |-> FALSE, err |-> "nil"]

\* a mutant of Retries: the first call is followed by a second whatever it
\* returned
RetriesAlways(attempt, retry) == attempt = 1

\* a mutant of Retries: sendMessage is called again as long as it asks to
RetriesWhile(attempt, retry) == retry

\* lines 242-245: send calls sendMessage a second time
Retries(attempt, retry) == attempt = 1 /\ retry

\* lines 242-247: the task after sendMessage returned r: the second call, or
\* the return of err
AfterAttempt(t, r) ==
  IF Retries(t.attempt, r.retry)
  THEN [t EXCEPT !.pc = "token", !.attempt = @ + 1, !.err = r.err]
  ELSE [t EXCEPT !.pc = "report", !.err = r.err]

\* lines 161-178, 242: a task starts: send builds wechatMsg from the
\* instance it holds and calls sendMessage
TaskStart(i) ==
  /\ i \in DOMAIN tasks
  /\ tasks[i].pc = "created"
  /\ tasks' = [tasks EXCEPT ![i].pc = "token", ![i].attempt = 1,
                            ![i].to = [ToUser |-> nw[tasks[i].key].ToUser,
                                       ToParty |-> nw[tasks[i].key].ToParty,
                                       ToTag |-> nw[tasks[i].key].ToTag]]
  /\ UNCHANGED <<receivers, ri, messageMaxSize, calls, wechat, data, splitMax,
                 pc, ctxDone, ctxAtCall, splitErr,
                 messages, todo, cur, us, ps, ts, nw, batches, errs>>
  /\ UNCHANGED atsVars

\* lines 182, 330: GetToken finds a cached token
GetTokenHit(i) ==
  /\ i \in DOMAIN tasks
  /\ tasks[i].pc = "token"
  /\ cache[CredKey(tasks[i].key)] # 0
  /\ tasks' = [tasks EXCEPT ![i].pc = "http",
                            ![i].tok = cache[CredKey(tasks[i].key)]]
  /\ UNCHANGED <<receivers, ri, messageMaxSize, calls, wechat, data, splitMax,
                 pc, ctxDone, ctxAtCall, splitErr,
                 messages, todo, cur, us, ps, ts, nw, batches, errs>>
  /\ UNCHANGED atsVars

\* a mutant of GetTokenFetch: get is called whether or not a fetch of the key
\* is under way
GetTokenFetchAlways(i) ==
  /\ i \in DOMAIN tasks
  /\ tasks[i].pc = "token"
  /\ cache[CredKey(tasks[i].key)] = 0
  /\ fetching' = fetching \cup {CredKey(tasks[i].key)}
  /\ tasks' = [tasks EXCEPT ![i].pc = "fetch"]
  /\ UNCHANGED <<receivers, ri, messageMaxSize, calls, wechat, data, splitMax,
                 pc, ctxDone, ctxAtCall, splitErr,
                 messages, todo, cur, us, ps, ts, nw, batches, errs>>
  /\ UNCHANGED <<cache, pendingInv, nfetch>>

\* lines 182, 330: GetToken finds no token and no fetch under way: it calls
\* get
GetTokenFetch(i) ==
  /\ i \in DOMAIN tasks
  /\ tasks[i].pc = "token"
  /\ cache[CredKey(tasks[i].key)] = 0
  /\ CredKey(tasks[i].key) \notin fetching
  /\ fetching' = fetching \cup {CredKey(tasks[i].key)}
  /\ tasks' = [tasks EXCEPT ![i].pc = "fetch"]
  /\ UNCHANGED <<receivers, ri, messageMaxSize, calls, wechat, data, splitMax,
                 pc, ctxDone, ctxAtCall, splitErr,
                 messages, todo, cur, us, ps, ts, nw, batches, errs>>
  /\ UNCHANGED <<cache, pendingInv, nfetch>>

\* lines 182, 330: GetToken finds no token and a fetch under way: it waits
\* for that fetch
GetTokenJoin(i) ==
  /\ i \in DOMAIN tasks
  /\ tasks[i].pc = "token"
  /\ cache[CredKey(tasks[i].key)] = 0
  /\ CredKey(tasks[i].key) \in fetching
  /\ tasks' = [tasks EXCEPT ![i].pc = "join"]
  /\ UNCHANGED <<receivers, ri, messageMaxSize, calls, wechat, data, splitMax,
                 pc, ctxDone, ctxAtCall, splitErr,
                 messages, todo, cur, us, ps, ts, nw, batches, errs>>
  /\ UNCHANGED atsVars

\* the tasks that receive the result of the fetch task i runs
Served(i, j) ==
  \/ j = i
  \/ tasks[j].pc = "join" /\ CredKey(tasks[j].key) = CredKey(tasks[i].key)

\* lines 288-327: get returns a token; it is cached and handed to the
\* caller and to the callers that wait
FetchOk(i) ==
  /\ i \in DOMAIN tasks
  /\ tasks[i].pc = "fetch"
  /\ ~ctxDone
  /\ nfetch' = nfetch + 1
  /\ cache' = [cache EXCEPT ![CredKey(tasks[i].key)] = nfetch + 1]
  /\ fetching' = fetching \ {CredKey(tasks[i].key)}
  /\ tasks' = [j \in 1..Len(tasks) |->
                IF Served(i, j)
                THEN [tasks[j] EXCEPT !.pc = "http", !.tok = nfetch + 1]
                ELSE tasks[j]]
  /\ UNCHANGED <<receivers, ri, messageMaxSize, calls, wechat, data, splitMax,
                 pc, ctxDone, ctxAtCall, splitErr,
                 messages, todo, cur, us, ps, ts, nw, batches, errs>>
  /\ UNCHANGED pendingInv

\* the errors of get: the secret cannot be read (line 295), or the request
\* fails, of the cancelled context when there is one
FetchErrors(cancelled) ==
  IF cancelled THEN {"credential", "cancelled"} ELSE {"credential", "transport"}

\* lines 288-327, 183-186: get fails; nothing is cached and sendMessage
\* returns the error, in the caller and in the callers that wait
FetchFail(i) ==
  /\ i \in DOMAIN tasks
  /\ tasks[i].pc = "fetch"
  /\ \E e \in FetchErrors(ctxDone) :
       tasks' = [j \in 1..Len(tasks) |->
                  IF Served(i, j)
                  THEN AfterAttempt([tasks[j] EXCEPT
                                       !.outs = Append(@, [err |-> e, code |-> 0])],
                                    [retry |-> FALSE, err |-> e])
                  ELSE tasks[j]]
  /\ fetching' = fetching \ {CredKey(tasks[i].key)}
  /\ UNCHANGED <<receivers, ri, messageMaxSize, calls, wechat, data, splitMax,
                 pc, ctxDone, ctxAtCall, splitErr,
                 messages, todo, cur, us, ps, ts, nw, batches, errs>>
  /\ UNCHANGED <<cache, pendingInv, nfetch>>

\* lines 188-247: the request is sent with the token and answered; on token
\* expiry the invalidation is started as a goroutine (line 234).  Encoding
\* the message and building the URL and the request (lines 188-212) depend
\* on the configuration alone and are taken to succeed.
HttpSend(i) ==
  /\ i \in DOMAIN tasks
  /\ tasks[i].pc = "http"
  /\ \E resp \in HttpOutcomes(ctxDone) :
       /\ tasks' = [tasks EXCEPT ![i] =
                      AfterAttempt([@ EXCEPT !.outs = Append(@, resp),
                                             !.toks = Append(@, tasks[i].tok)],
                                   SendResult(resp))]
       /\ pendingInv' =
            IF resp.err = "nil" /\ resp.code = AccessTokenInvalid
            THEN [pendingInv EXCEPT ![CredKey(tasks[i].key)] = @ + 1]
            ELSE pendingInv
  /\ UNCHANGED <<receivers, ri, messageMaxSize, calls, wechat, data, splitMax,
                 pc, ctxDone, ctxAtCall, splitErr,
                 messages, todo, cur, us, ps, ts, nw, batches, errs>>
  /\ UNCHANGED <<cache, fetching, nfetch>>

\* a mutant of Invalidate: the whole cache is dropped
InvalidateAll(k) ==
  /\ pendingInv[k] > 0
  /\ pendingInv' = [pendingInv EXCEPT ![k] = @ - 1]
  /\ cache' = [j \in Idents |-> 0]
  /\ UNCHANGED <<receivers, ri, messageMaxSize, calls, wechat, pc>>
  /\ UNCHANGED callVars
  /\ UNCHANGED <<fetching, nfetch>>

\* lines 333-336: a started invalidToken goroutine runs: the entry of its
\* key is removed
Invalidate(k) ==
  /\ pendingInv[k] > 0
  /\ pendingInv' = [pendingInv EXCEPT ![k] = @ - 1]
  /\ cache' = [cache EXCEPT ![k] = 0]
  /\ UNCHANGED <<receivers, ri, messageMaxSize, calls, wechat, pc>>
  /\ UNCHANGED callVars
  /\ UNCHANGED <<fetching, nfetch>>

\* a mutant of Report: only an error is sent on the group's channel
ReportErrorsOnly(i) ==
  /\ i \in DOMAIN tasks
  /\ tasks[i].pc = "report"
  /\ tasks[i].err # "nil"
  /\ tasks' = [tasks EXCEPT ![i].pc = "done"]
  /\ errs' = Append(errs, tasks[i].err)
  /\ UNCHANGED <<receivers, ri, messageMaxSize, calls, wechat, data, splitMax,
                 pc, ctxDone, ctxAtCall, splitErr,
                 messages, todo, cur, us, ps, ts, nw, batches>>
  /\ UNCHANGED atsVars

\* a mutant of Report: an error is dropped once one has been collected
ReportFirstOnly(i) ==
  /\ i \in DOMAIN tasks
  /\ tasks[i].pc = "report"
  /\ tasks' = [tasks EXCEPT ![i].pc = "done"]
  /\ errs' = IF tasks[i].err # "nil" /\ errs = <<>>
             THEN Append(errs, tasks[i].err) ELSE errs
  /\ UNCHANGED <<receivers, ri, messageMaxSize, calls, wechat, data, splitMax,
                 pc, ctxDone, ctxAtCall, splitErr,
                 messages, todo, cur, us, ps, ts, nw, batches>>
  /\ UNCHANGED atsVars

\* line 277: the task reports what send returned on the group's channel;
\* Wait keeps it when it is not nil
Report(i) ==
  /\ i \in DOMAIN tasks
  /\ tasks[i].pc = "report"
  /\ tasks' = [tasks EXCEPT ![i].pc = "done"]
  /\ errs' = IF tasks[i].err # "nil" THEN Append(errs, tasks[i].err) ELSE errs
  /\ UNCHANGED <<receivers, ri, messageMaxSize, calls, wechat, data, splitMax,
                 pc, ctxDone, ctxAtCall, splitErr,
                 messages, todo, cur, us, ps, ts, nw, batches>>
  /\ UNCHANGED atsVars

\* the caller cancels ctx while Notify runs
Cancel ==
  /\ pc \in {"range", "batch", "wait"}
  /\ ~ctxDone
  /\ ctxDone' = TRUE
  /\ UNCHANGED <<receivers, ri, messageMaxSize, calls, wechat, data, splitMax,
                 pc, ctxAtCall, splitErr, messages, todo,
                 cur, us, ps, ts, nw, batches, tasks, errs>>
  /\ UNCHANGED atsVars

\* the receivers of the notifiers whose Notify is examined: one instance
\* whose users need two batches, or two instances of different identity
CallInputs ==
  {<<Receiver(1, ToUserBatchSize + 1, 0, 0)>>,
   <<Receiver(1, 1, 0, 0), Receiver(2, 1, 1, 0)>>}

\* the state after NewWechatNotifier, called without a size option; the token
\* service is shared by the process and may hold a token (number 1) fetched
\* before
Init ==
  /\ receivers \in CallInputs
  /\ ri = Len(receivers)
  /\ messageMaxSize = MaxSizeOf(0)
  /\ calls = 0
  /\ wechat = Built(EmptyMap, receivers)
  /\ pc = "ready"
  /\ data \in {0, 1}
  /\ CallIdle
  /\ cache \in {[k \in Idents |-> 0], [k \in Idents |-> 1]}
  /\ fetching = {}
  /\ pendingInv = [k \in Idents |-> 0]
  /\ nfetch = 1

\* the tasks of the calls examined: at most two
TaskIds == {1, 2}

Next ==
  \/ NotifyCall
  \/ NotifySplitError
  \/ RangeNext
  \/ LoopIter
  \/ LoopBreak
  \/ RangeEnd
  \/ WaitReturn
  \/ Cancel
  \/ \E i \in TaskIds : TaskStart(i)
  \/ \E i \in TaskIds : GetTokenHit(i)
  \/ \E i \in TaskIds : GetTokenFetch(i)
  \/ \E i \in TaskIds : GetTokenJoin(i)
  \/ \E i \in TaskIds : FetchOk(i)
  \/ \E i \in TaskIds : FetchFail(i)
  \/ \E i \in TaskIds : HttpSend(i)
  \/ \E i \in TaskIds : Report(i)
  \/ \E k \in Idents : Invalidate(k)

Spec == Init /\ [][Next]_vars

\* the steps of the goroutine of task i
TaskStep(i) ==
  \/ TaskStart(i)
  \/ GetTokenHit(i)
  \/ GetTokenFetch(i)
  \/ GetTokenJoin(i)
  \/ FetchOk(i)
  \/ FetchFail(i)
  \/ HttpSend(i)
  \/ Report(i)

\* the Go scheduler runs every goroutine that can take a step: the one
\* inside Notify, the group's tasks and the started invalidations; get and
\* DoHttpRequest return (with a result or an error).  Whether Notify is
\* called and whether its ctx is cancelled is up to the caller.
Fairness ==
  /\ WF_vars(RangeNext \/ LoopIter \/ LoopBreak \/ RangeEnd \/ WaitReturn)
  /\ \A i \in TaskIds : WF_vars(TaskStep(i))
  /\ \A k \in Idents : WF_vars(Invalidate(k))

\* the calls examined for termination: the notifier has one instance whose
\* parties need two batches, the data renders to one message and the token
\* service holds a token
InitFair ==
  /\ receivers = <<Receiver(1, 0, ToPartyBatchSize + 1, 0)>>
  /\ ri = Len(receivers)
  /\ messageMaxSize = MaxSizeOf(0)
  /\ calls = 0
  /\ wechat = Built(EmptyMap, receivers)
  /\ pc = "ready"
  /\ data = 1
  /\ CallIdle
  /\ cache = [k \in Idents |-> 1]
  /\ fetching = {}
  /\ pendingInv = [k \in Idents |-> 0]
  /\ nfetch = 1

SpecFair == InitFair /\ [][Next]_vars /\ Fairness

----------------------------------------------------------------------------
(* C8 *)

\* the entries of a batch string: each is followed by a separator
Entries(b) ==
  IF b = <<>> THEN <<>> ELSE SubSeq(Split(b), 1, Len(Split(b)) - 1)

\* the entries of the batches bs of one kind, in order
BatchEntries(bs, kind) ==
  Concat([i \in 1..Len(bs) |-> Entries(bs[i][kind])])

\* C8: when the batching loop of an instance is over, for each kind the
\* batches it produced hold at most the kind's limit of destinations each
\* and, concatenated in order, are exactly the instance's list of that kind.
C8_BatchesPartition ==
  (pc = "batch" /\ LoopOver) =>
    LET bs == batches[cur]
    IN /\ BatchEntries(bs, "ToUser") = toUser
       /\ BatchEntries(bs, "ToParty") = toParty
       /\ BatchEntries(bs, "ToTag") = toTag
       /\ \A i \in 1..Len(bs) :
            /\ Len(Entries(bs[i].ToUser)) <= ToUserBatchSize
            /\ Len(Entries(bs[i].ToParty)) <= ToPartyBatchSize
            /\ Len(Entries(bs[i].ToTag)) <= ToTagBatchSize
            /\ bs[i].ToUser = Concat([j \in 1..Len(Entries(bs[i].ToUser)) |->
                                        Entries(bs[i].ToUser)[j] \o <<Sep>>])

\* a list one longer than the batch size was split into a full batch and a
\* batch of the last destination
C8_Witness ==
  /\ pc = "batch" /\ LoopOver
  /\ Len(toUser) = ToUserBatchSize + 1
  /\ Len(batches[cur]) >= 2
  /\ Len(Entries(batches[cur][1].ToUser)) = ToUserBatchSize
  /\ Entries(batches[cur][2].ToUser) = <<toUser[Len(toUser)]>>

----------------------------------------------------------------------------
(* C16 *)

\* C16: in every Notify call, the first and the later ones, the instances
\* are the ones NewWechatNotifier built; the loop narrows the clone only, and
\* when the batching loop of an instance is over its batches list every
\* destination the constructor merged into the instance.
C16_NotifyLeavesInstances ==
  pc # "new" =>
    /\ wechat = Built(EmptyMap, receivers)
    /\ (pc = "batch" /\ LoopOver) =>
         LET w == Built(EmptyMap, receivers)[cur]
         IN /\ BatchEntries(batches[cur], "ToUser") = Split(w.ToUser)
            /\ BatchEntries(batches[cur], "ToParty") = Split(w.ToParty)
            /\ BatchEntries(batches[cur], "ToTag") = Split(w.ToTag)
            /\ nw[cur].ToUser = batches[cur][Len(batches[cur])].ToUser

\* a call after one whose loops narrowed the clone has batched the users
\* into two batches, the clone holding the last of them
C16_Witness ==
  /\ calls >= 1
  /\ pc = "batch" /\ LoopOver
  /\ Len(batches[cur]) >= 2
  /\ Len(Entries(batches[cur][1].ToUser)) = ToUserBatchSize
  /\ nw[cur].ToUser # wechat[cur].ToUser
  /\ Len(toUser) > ToUserBatchSize

----------------------------------------------------------------------------
(* C17 *)

\* C17: the size bound a Notify call has passed to Split is the notifier's
\* configured one: the positive MessageMaxSize option when there is one, the
\* default otherwise.
C17_SplitUsesConfiguredSize ==
  pc \in {"range", "batch", "wait", "done"} => splitMax = messageMaxSize

----------------------------------------------------------------------------
(* C19 *)

\* the number of batches of at most size a list of length len is cut into
Ceil(len, size) == (len + size - 1) \div size

Max3(a, b, c) ==
  IF a >= b /\ a >= c THEN a ELSE IF b >= c THEN b ELSE c

\* the rounds of the instance the loop is at; the list of a kind without
\* destinations is the one empty entry Split returns
Rounds ==
  Max3(Ceil(Len(toUser), ToUserBatchSize),
       Ceil(Len(toParty), ToPartyBatchSize),
       Ceil(Len(toTag), ToTagBatchSize))

\* the entries of round i of a list cut into batches of size
Slice(list, i, size) ==
  SubSeq(list, (i - 1) * size + 1,
         IF i * size < Len(list) THEN i * size ELSE Len(list))

\* C19: when the batching loop of an instance is over, it has made as many
\* rounds as the longest of the three lists needs, round i holds the i-th
\* slice of every list (nothing for a list already exhausted), and the tasks
\* added for the instance are exactly one per round and message.
C19_TasksAreRoundsTimesMessages ==
  (pc = "batch" /\ LoopOver) =>
    /\ Len(batches[cur]) = Rounds
    /\ Rounds >= 1
    /\ \A i \in 1..Rounds :
         /\ Entries(batches[cur][i].ToUser) = Slice(toUser, i, ToUserBatchSize)
         /\ Entries(batches[cur][i].ToParty) = Slice(toParty, i, ToPartyBatchSize)
         /\ Entries(batches[cur][i].ToTag) = Slice(toTag, i, ToTagBatchSize)
         /\ i > Ceil(Len(toUser), ToUserBatchSize) => batches[cur][i].ToUser = <<>>
    /\ Cardinality({j \in DOMAIN tasks : tasks[j].key = cur}) =
         Rounds * Len(messages)
    /\ \A i \in 1..Rounds, m \in 1..Len(messages) :
         Cardinality({j \in DOMAIN tasks :
                        /\ tasks[j].key = cur
                        /\ tasks[j].iter = i
                        /\ tasks[j].m = messages[m]}) = 1

\* two messages and an instance whose parties need more rounds than its
\* users: the users' batch of the last round is empty, and there are two
\* tasks per round
C19_Witness ==
  /\ pc = "batch" /\ LoopOver
  /\ Len(messages) = 2
  /\ Rounds >= 3
  /\ Ceil(Len(toUser), ToUserBatchSize) = 2
  /\ batches[cur][Rounds].ToUser = <<>>
  /\ Len(tasks) = 2 * Rounds

----------------------------------------------------------------------------
(* The claims about send, sendMessage and the group *)

Tasks == {tasks[i] : i \in DOMAIN tasks}

\* send has returned in task t
Finished(t) == t.pc \in {"report", "done"}

\* the outcome o of an attempt is a response with the success code, with the
\* token-expiry code, with another code
IsSuccess(o) == o.err = "nil" /\ o.code = 0
IsExpiry(o) == o.err = "nil" /\ o.code = AccessTokenInvalid
IsOther(o) == o.err = "nil" /\ o.code \notin {0, AccessTokenInvalid}

\* C1: a task calls sendMessage at most twice; it calls it a second time
\* only after a first attempt answered with the token-expiry code, and then,
\* whatever the second attempt yields, it returns after exactly two attempts;
\* after any other first attempt it returns after that one.
C1_AtMostOneRetry ==
  \A t \in Tasks :
    /\ t.attempt <= 2
    /\ Len(t.outs) <= t.attempt
    /\ t.attempt = 2 => IsExpiry(t.outs[1])
    /\ Finished(t) =>
         /\ Len(t.outs) = t.attempt
         /\ t.attempt = IF IsExpiry(t.outs[1]) THEN 2 ELSE 1

\* a task has returned after a first and a second token expiry
C1_Witness ==
  \E t \in Tasks :
    /\ Finished(t)
    /\ Len(t.outs) = 2
    /\ IsExpiry(t.outs[1])
    /\ IsExpiry(t.outs[2])

\* C2: the retry of a task is never sent with the token its first attempt
\* was rejected with.
C2_RetryUsesFreshToken ==
  \A t \in Tasks : Len(t.toks) = 2 => t.toks[2] # t.toks[1]

\* C3: when Notify has returned, a task whose attempt was answered with a
\* code that is neither success nor token expiry made no further attempt and
\* its error is among the errors returned.
C3_OtherCodeIsAnError ==
  pc = "done" =>
    \A t \in Tasks :
      IsOther(t.outs[Len(t.outs)]) => t.err # "nil" /\ errs # <<>>

\* C4: the destinations of the request a task has built are the batch of
\* the loop iteration that added the task.
C4_TaskSendsItsOwnBatch ==
  \A t \in Tasks : t.pc # "created" => t.to = batches[t.key][t.iter]

\* the number of occurrences of e in the sequence q
Count(q, e) == Cardinality({i \in DOMAIN q : q[i] = e})

Errors == {"cancelled", "transport", "credential", WeRespError}

\* C5: the errors collected are, at any time, exactly the non-nil results of
\* the tasks that have reported, and when Notify returns without a template
\* error every task added has run and reported: the list returned holds one
\* error per task whose send returned an error.
C5_EveryResultCollected ==
  /\ \A e \in Errors :
       Count(errs, e) =
         Cardinality({i \in DOMAIN tasks : tasks[i].pc = "done" /\ tasks[i].err = e})
  /\ \A i \in DOMAIN errs : errs[i] \in Errors
  /\ (pc = "done" /\ ~splitErr) =>
       /\ \A t \in Tasks : t.pc = "done" /\ t.attempt >= 1
       /\ Len(errs) = Cardinality({i \in DOMAIN tasks : tasks[i].err # "nil"})
       /\ Len(errs) <= Len(tasks)

\* Notify has returned the errors of two failed tasks
C5_Witness ==
  /\ pc = "done"
  /\ Len(tasks) = 2
  /\ Len(errs) = 2
  /\ tasks[1].err # tasks[2].err

\* C6: when Split fails, no task is added and Notify returns an error.
C6_TemplateErrorSurfaced ==
  (pc = "done" /\ splitErr) => tasks = <<>> /\ errs # <<>>

\* C9: a task that made a second attempt returns what that attempt yields:
\* no error when it succeeds, its error when it fails.
C9_ResultIsTheRetrys ==
  \A t \in Tasks :
    (Finished(t) /\ Len(t.outs) = 2) =>
      IF IsSuccess(t.outs[2]) THEN t.err = "nil"
      ELSE /\ t.err # "nil"
           /\ t.err = SendResult(t.outs[2]).err

\* C10: when Notify was called with a cancelled context and added a task,
\* the list it returns is not empty and holds cancellation errors only.
C10_CancelledCallReportsCancellation ==
  (pc = "done" /\ ctxAtCall /\ tasks # <<>>) =>
    /\ errs # <<>>
    /\ \A i \in DOMAIN errs : errs[i] = "cancelled"

----------------------------------------------------------------------------
(* The claims about the token service *)

\* the tasks inside GetToken for the credential key k with no token cached:
\* the one that runs get and those that wait for it
Callers(k) ==
  {i \in DOMAIN tasks :
     tasks[i].pc \in {"fetch", "join"} /\ CredKey(tasks[i].key) = k}

Fetchers(k) == {i \in Callers(k) : tasks[i].pc = "fetch"}

\* C11: while tasks are inside GetToken for a key without a cached token,
\* exactly one of them runs the fetch and no token is cached; a step issues
\* at most one token, and the step that caches a token for the key hands that
\* token to every one of these tasks.
C11_SingleFlight ==
  [][\A k \in Idents :
       /\ Cardinality(Fetchers(k)) <= 1
       /\ Callers(k) # {} => Cardinality(Fetchers(k)) = 1 /\ cache[k] = 0
       /\ (k \in fetching) = (Fetchers(k) # {})
       /\ nfetch' \in {nfetch, nfetch + 1}
       /\ (cache'[k] # cache[k] /\ cache'[k] # 0) =>
            /\ nfetch' = nfetch + 1
            /\ cache'[k] = nfetch'
            /\ \A j \in Idents \ {k} : cache'[j] = cache[j]
            /\ Callers(k) # {}
            /\ \A i \in Callers(k) :
                 tasks'[i].pc = "http" /\ tasks'[i].tok = cache'[k]
       /\ nfetch' # nfetch => \E j \in Idents : cache'[j] = nfetch']_vars

\* two tasks of one key are inside GetToken: one runs the fetch, the other
\* waits for it
C11_Witness ==
  /\ Len(tasks) = 2
  /\ CredKey(tasks[1].key) = CredKey(tasks[2].key)
  /\ Cardinality(Callers(CredKey(tasks[1].key))) = 2
  /\ tasks[1].attempt = 1 /\ tasks[2].attempt = 1

\* C14: when the fetch a task runs or waits for fails, the task goes on to
\* report that error: it sends no request and makes no further attempt; no
\* token is cached for the key and no fetch of it is left under way, so the
\* next GetToken fetches again; the tasks of other keys are left as they are.
C14_FetchErrorReported ==
  [][\A i \in TaskIds :
       (/\ i \in DOMAIN tasks
        /\ tasks[i].pc \in {"fetch", "join"}
        /\ tasks'[i].pc \notin {"fetch", "join", "http"}) =>
          LET k == CredKey(tasks[i].key)
          IN /\ tasks'[i].pc = "report"
             /\ tasks'[i].err \in FetchErrors(ctxDone)
             /\ tasks'[i].toks = tasks[i].toks
             /\ tasks'[i].attempt = tasks[i].attempt
             /\ cache' = cache
             /\ cache[k] = 0
             /\ k \notin fetching'
             /\ \A j \in DOMAIN tasks :
                  CredKey(tasks[j].key) # k => tasks'[j] = tasks[j]]_vars

\* a task has returned the credential error of its fetch without a request,
\* next to a task of another key whose request succeeded
C14_Witness ==
  /\ Len(tasks) = 2
  /\ CredKey(tasks[1].key) # CredKey(tasks[2].key)
  /\ \E i \in DOMAIN tasks, j \in DOMAIN tasks :
       /\ Finished(tasks[i])
       /\ tasks[i].attempt = 1
       /\ tasks[i].toks = <<>>
       /\ tasks[i].err = "credential"
       /\ cache[CredKey(tasks[i].key)] = 0
       /\ Finished(tasks[j])
       /\ tasks[j].err = "nil"
       /\ IsSuccess(tasks[j].outs[1])

\* C15: an invalidation is started for a key only by a token-expiry answer
\* to a task of an instance of that key; a cached token is removed only by
\* an invalidation started for its key, which leaves the other keys' entries
\* as they are; an entry is written only by a fetch of a task of its key;
\* and no step of Notify or of its tasks changes the notifier's instances.
C15_ExpiryInvalidatesOwnKeyOnly ==
  [][/\ pc # "new" => wechat' = wechat /\ receivers' = receivers
     /\ \A k \in Idents :
          /\ pendingInv'[k] > pendingInv[k] =>
               \E i \in DOMAIN tasks :
                 /\ CredKey(tasks[i].key) = k
                 /\ Len(tasks'[i].outs) = Len(tasks[i].outs) + 1
                 /\ IsExpiry(tasks'[i].outs[Len(tasks'[i].outs)])
          /\ (cache[k] # 0 /\ cache'[k] = 0) =>
               /\ pendingInv[k] > 0
               /\ pendingInv'[k] = pendingInv[k] - 1
               /\ \A j \in Idents \ {k} : cache'[j] = cache[j]
          /\ (cache'[k] # cache[k] /\ cache'[k] # 0) =>
               \E i \in DOMAIN tasks :
                 CredKey(tasks[i].key) = k /\ tasks[i].pc = "fetch"]_vars

\* the token of one key was removed after a task of that key was answered
\* with token expiry, and the token of the other key is still cached
C15_Witness ==
  /\ Len(tasks) = 2
  /\ \E i \in DOMAIN tasks, j \in DOMAIN tasks :
       /\ CredKey(tasks[i].key) # CredKey(tasks[j].key)
       /\ Len(tasks[i].outs) >= 1
       /\ IsExpiry(tasks[i].outs[1])
       /\ pendingInv[CredKey(tasks[i].key)] = 0
       /\ cache[CredKey(tasks[i].key)] = 0
       /\ cache[CredKey(tasks[j].key)] = 1

\* the channel has answered a request sent with token tok for key k with
\* token expiry
Rejected(k, tok) ==
  \E i \in DOMAIN tasks :
    /\ CredKey(tasks[i].key) = k
    /\ \E a \in 1..Len(tasks[i].toks) :
         tasks[i].toks[a] = tok /\ IsExpiry(tasks[i].outs[a])

\* C18: the token an invalidation removes from the cache is one the channel
\* has rejected: a token fetched after the rejection of an older one stays
\* cached when the invalidations started for the older one run.
C18_NoStaleInvalidation ==
  [][\A k \in Idents :
       (cache[k] # 0 /\ cache'[k] = 0) => Rejected(k, cache[k])]_vars

----------------------------------------------------------------------------
(* C13 *)

\* C13: a Notify call that has entered its loops returns: the batching loop
\* of the instance it is at ends, every task added reports, and Wait returns.
C13_NotifyTerminates ==
  (pc \in {"range", "batch", "wait"}) ~>
     (pc = "done" /\ \A i \in DOMAIN tasks : tasks[i].pc = "done")

\* Notify has returned after two tasks reported, one of them after a retry
C13_Witness ==
  /\ pc = "done"
  /\ Len(tasks) = 2
  /\ \A i \in DOMAIN tasks : tasks[i].pc = "done"
  /\ \E i \in DOMAIN tasks : tasks[i].attempt = 2

====
